---- MODULE Spec2Model ----
(***************************************************************************)
(* flatflow::scheduler::Scheduler<Index, Size, Order, Heterogeneous>       *)
(* (src/flatflow/scheduler/scheduler.h).                                   *)
(*                                                                         *)
(* live is the set of scheduler instances of the run.  All of them are     *)
(* constructed from the same arguments and receive the same calls, so that *)
(* a statement comparing two instances is a state predicate of a run with  *)
(* two instances (SpecPair).                                               *)
(*                                                                         *)
(* Index arithmetic is unsigned IndexBits-bit arithmetic.  The dataset,    *)
(* the partitioner, shuffle, reshape and concat live in headers that       *)
(* scheduler.h only includes; they are modelled from the design document.  *)
(***************************************************************************)
EXTENDS Integers, Sequences, FiniteSets, TLC

VARIABLES
    args,      \* the constructor arguments: sizes, P, G, M, seed
    live,      \* the scheduler instances of the run
    status,    \* per instance: "unconstructed", "ready" or "aborted"
    sched,     \* per instance: the data members (scheduler.h:217-224)
    assigned,  \* per instance: epoch_ has been assigned since construction
    ret,       \* per instance: what the call just made returned, if it was
               \* Schedule(), with the takes, group counts and seeds it used
    last_op    \* the call just made and its argument

vars == <<args, live, status, sched, assigned, ret, last_op>>

(***************************************************************************)
(* Bounds                                                                  *)
(***************************************************************************)
IndexBits == 4
MaxP == 2
MaxSteps == 2
MaxM == 2
MaxN == 6
MaxSeed == 1
MaxEpoch == 1
BigSize == 4
SizeBits == 4

Inst == {1, 2}
\* a pointer to a flatbuffers vector: null, or a vector of sizes
NULL == [null |-> TRUE, data |-> <<>>]
Vec(v) == [null |-> FALSE, data |-> v]
NoScheduler == [none |-> TRUE]
NoResult == [none |-> TRUE]

\* mapped_type = Index is an unsigned integer type of IndexBits bits.
IndexMod == 2 ^ IndexBits
IndexValues == 0 .. (IndexMod - 1)
Wrap(x) == x % IndexMod

\* F applied to the value of e
Apply(e, F(_)) == CHOOSE r \in {F(v) : v \in {e}} : TRUE

\* the sequence <<F(1), ..., F(n)>>
MkSeq(n, F(_)) ==
    LET f[i \in 0 .. n] == IF i = 0 THEN <<>> ELSE Append(f[i - 1], F(i))
    IN f[n]

RECURSIVE SumSeq(_)
SumSeq(s) == IF s = <<>> THEN 0 ELSE Head(s) + SumSeq(Tail(s))

RECURSIVE Flatten(_)
Flatten(ss) == IF ss = <<>> THEN <<>> ELSE Head(ss) \o Flatten(Tail(ss))

Range(s) == {s[i] : i \in 1 .. Len(s)}

(***************************************************************************)
(* Constructor, scheduler.h:68-103                                         *)
(***************************************************************************)
\* sizes->size() of a non-null vector
SizeOf(sizes) == Len(sizes.data)

\* The asserts of lines 76-83, in order; /\ is evaluated left to right, so
\* no division is evaluated before its divisor is known to be non-zero.
AssertsDropLast(sizes, P, G, M) ==
    /\ P # 0
    /\ G # 0
    /\ G % P = 0
    /\ M # 0
    /\ (G \div P) % M = 0
    /\ sizes # NULL
    /\ SizeOf(sizes) # 0

AssertsPass(sizes, P, G, M) ==
    /\ P # 0
    /\ G # 0
    /\ G % P = 0
    /\ M # 0
    /\ (G \div P) % M = 0
    /\ sizes # NULL
    /\ SizeOf(sizes) # 0
    /\ SizeOf(sizes) % P = 0

\* The naive rounding-up (x + y - 1) / y in place of (x - 1) / y + 1.
NumMicroBatchesNaive(N, P, M) ==
    Wrap((Wrap(Wrap(N \div P) + M - 1) \div M) * P)

\* lines 87-89
NumMicroBatches(N, P, M) ==
    Wrap(((Wrap(Wrap(N \div P) - 1) \div M) + 1) * P)

\* lines 97-98
LastMicroBatchSize(N, P, M) ==
    Wrap((Wrap(Wrap(N \div P) - 1) % M) + 1)

(***************************************************************************)
(* flatflow::data::internal::OverflowSafeCast (referenced at lines 130,    *)
(* 148, 154): unsigned Size to the signed accumulator, saturating.         *)
(***************************************************************************)
SignedMax == (2 ^ (SizeBits - 1)) - 1
OverflowSafeCast(x) == IF x > SignedMax THEN SignedMax ELSE x

(***************************************************************************)
(* internal::algorithm::shuffle: Fisher-Yates over a sequence, driven by a *)
(* fixed linear congruential generator seeded with the given seed.         *)
(***************************************************************************)
Rand(x) == ((x * 17) + 7) % 251

Swap(s, i, j) == [s EXCEPT ![i] = s[j], ![j] = s[i]]

RECURSIVE FisherYates(_, _, _)
FisherYates(s, i, x) ==
    IF i < 2 THEN s
    ELSE LET y == Rand(x)
             j == (y % i) + 1
         IN Apply(Swap(s, i, j), LAMBDA t : FisherYates(t, i - 1, y))

shuffle(s, seed) == FisherYates(s, Len(s), seed)

(***************************************************************************)
(* flatflow::data::Dataset: the sampling order of the epoch and how much   *)
(* of it has been taken.                                                   *)
(***************************************************************************)
Iota(n) == MkSeq(n, LAMBDA i : i - 1)

Dataset(sizes, seed) ==
    [sizes |-> sizes.data, seed |-> seed,
     order |-> shuffle(Iota(Len(sizes.data)), seed), pos |-> 0]

\* take(n) is defined when n items remain; exhaustion is fatal.
CanTake(ds, n) == ds.pos + n <= Len(ds.order)

TakeItems(ds, n) ==
    MkSeq(n, LAMBDA k :
        LET ix == ds.order[ds.pos + k]
        IN [index |-> ix, size |-> ds.sizes[ix + 1]])

AfterTake(ds, n) == [ds EXCEPT !.pos = ds.pos + n]

DatasetOnEpochBegin(ds, epoch) ==
    [ds EXCEPT !.order = shuffle(Iota(Len(ds.sizes)), Wrap(ds.seed + epoch)),
               !.pos = 0]

(***************************************************************************)
(* internal::algorithm::KarmarkarKarp: K-way differencing.                 *)
(***************************************************************************)
SlotWeights(t) == {t[k].w : k \in 1 .. Len(t)}
MaxOf(S) == CHOOSE x \in S : \A y \in S : y <= x
MinOf(S) == CHOOSE x \in S : \A y \in S : x <= y
Spread(t) == MaxOf(SlotWeights(t)) - MinOf(SlotWeights(t))

Singleton(item, K) ==
    MkSeq(K, LAMBDA k :
        IF k = 1 THEN [w |-> OverflowSafeCast(item.size), idx |-> <<item.index>>]
        ELSE [w |-> 0, idx |-> <<>>])

\* stable sorts of the slots of a tuple by weight
SortDesc(t) ==
    LET rank(i) == Cardinality({j \in 1 .. Len(t) :
                        t[j].w > t[i].w \/ (t[j].w = t[i].w /\ j < i)}) + 1
    IN MkSeq(Len(t), LAMBDA r : t[CHOOSE i \in 1 .. Len(t) : rank(i) = r])

SortAsc(t) ==
    LET rank(i) == Cardinality({j \in 1 .. Len(t) :
                        t[j].w < t[i].w \/ (t[j].w = t[i].w /\ j < i)}) + 1
    IN MkSeq(Len(t), LAMBDA r : t[CHOOSE i \in 1 .. Len(t) : rank(i) = r])

Combine(a, b) ==
    LET A == SortDesc(a)
        B == SortAsc(b)
    IN MkSeq(Len(a), LAMBDA k :
           [w |-> A[k].w + B[k].w, idx |-> A[k].idx \o B[k].idx])

\* the queue is kept in insertion order; the highest spread is popped,
\* the earliest inserted among equals
TopOf(q) ==
    CHOOSE i \in 1 .. Len(q) :
        /\ \A j \in 1 .. Len(q) : Spread(q[j]) <= Spread(q[i])
        /\ \A j \in 1 .. (i - 1) : Spread(q[j]) < Spread(q[i])

Remove(q, i) == SubSeq(q, 1, i - 1) \o SubSeq(q, i + 1, Len(q))

\* pop the two tuples of highest spread, push their combination
Pop2(q) ==
    Apply(TopOf(q), LAMBDA i :
        Apply(Remove(q, i), LAMBDA q1 :
            Apply(TopOf(q1), LAMBDA j :
                Append(Remove(q1, j), Combine(q[i], q1[j])))))

RECURSIVE Differencing(_)
Differencing(q) ==
    IF Len(q) = 1 THEN q[1]
    ELSE Apply(Pop2(q), LAMBDA q2 : Differencing(q2))

KKRejects(K) == K = 0

KarmarkarKarp(items, K) ==
    IF Len(items) = 0 THEN MkSeq(K, LAMBDA k : <<>>)
    ELSE LET final == Differencing(MkSeq(Len(items), LAMBDA n : Singleton(items[n], K)))
         IN MkSeq(K, LAMBDA k : final[k].idx)

(***************************************************************************)
(* internal::algorithm::reshape and concat.  Schedule() passes reshape the *)
(* micro-batches, P and G (lines 135-137); the micro-batch size M of       *)
(* mu = G / P / M is the configured one and is passed alongside.           *)
(***************************************************************************)
\* micro-batches per global batch per rank
Mu(P, G, M) == (G \div P) \div M

\* block-wise: micro-batch i (from 0) of a global batch goes to rank i / mu
RankOf(i, P, mu) == (i % (P * mu)) \div mu

RECURSIVE RowOf(_, _, _, _, _)
RowOf(mbs, i, r, P, mu) ==
    IF i > Len(mbs) THEN <<>>
    ELSE (IF RankOf(i - 1, P, mu) = r THEN mbs[i] ELSE <<>>)
         \o RowOf(mbs, i + 1, r, P, mu)

reshape(mbs, P, G, M) ==
    MkSeq(P, LAMBDA r : RowOf(mbs, 1, r - 1, P, Mu(P, G, M)))

\* how many micro-batches each rank receives
BatchesOfRank(n, P, G, M) ==
    MkSeq(P, LAMBDA r :
        Cardinality({i \in 1 .. n : RankOf(i - 1, P, Mu(P, G, M)) = r - 1}))

concat(head, tail) == MkSeq(Len(head), LAMBDA r : head[r] \o tail[r])

(***************************************************************************)
(* Scheduler::Schedule, scheduler.h:122-172                                *)
(***************************************************************************)
\* line 125
IsUniformNever(M, L) == FALSE

IsUniform(M, L) == M = L

\* lines 126-127
UniformTake(M, K) == Wrap(M * K)

\* lines 144-145
HeadTake(M, K, P) == Wrap(M * Wrap(K - P))

\* line 147
HeadGroups(K, P) == Wrap(K - P)

\* lines 150-151
TailTakeOne(L, P) == L

TailTake(L, P) == Wrap(L * P)

\* lines 136, 160, 164: epoch_ + seed_
ShuffleSeed(epoch, seed) == Wrap(epoch + seed)

\* consecutive chunks of the items in the order they were taken
InOrder(items, K) ==
    LET c == Len(items) \div K
    IN MkSeq(K, LAMBDA k : MkSeq(c, LAMBDA j : items[((k - 1) * c) + j].index))

\* lines 128-130, 146-148, 152-154: the partitioner is called with the
\* items just taken, the number of groups and OverflowSafeCast
Partition(items, K) == KarmarkarKarp(items, K)

EmptyRows(P) == MkSeq(P, LAMBDA r : <<>>)

Fatal(ds) == [ok |-> FALSE, dataset |-> ds, ret |-> NoResult]

\* lines 125-142
UniformBranch(s) ==
    LET P == s.data_parallel_size_
        G == s.global_batch_size_
        M == s.micro_batch_size_
        K == s.num_micro_batches_
        ds == s.dataset_
        n == UniformTake(M, K)
    IN IF ~CanTake(ds, n) \/ KKRejects(K) THEN Fatal(ds)
       ELSE LET items == TakeItems(ds, n)
                micro_batches == Partition(items, K)
                sd == ShuffleSeed(s.epoch_, s.seed_)
                shuffled == shuffle(micro_batches, sd)
                indices == reshape(shuffled, P, G, M)
            IN [ok |-> TRUE,
                dataset |-> AfterTake(ds, n),
                ret |-> [branch |-> "uniform",
                         indices |-> indices,
                         takes |-> <<n>>,
                         groups |-> <<K>>,
                         seeds |-> <<sd>>,
                         input |-> shuffled,
                         head |-> indices,
                         tail |-> EmptyRows(P),
                         nmb |-> BatchesOfRank(Len(shuffled), P, G, M)]]

\* lines 144-171
TailBranch(s) ==
    LET P == s.data_parallel_size_
        G == s.global_batch_size_
        M == s.micro_batch_size_
        L == s.last_micro_batch_size_
        K == s.num_micro_batches_
        ds == s.dataset_
        n1 == HeadTake(M, K, P)
        k1 == HeadGroups(K, P)
        n2 == TailTake(L, P)
    IN IF ~CanTake(ds, n1) \/ KKRejects(k1) THEN Fatal(ds)
       ELSE IF ~CanTake(AfterTake(ds, n1), n2) \/ KKRejects(P)
       THEN Fatal(AfterTake(ds, n1))
       ELSE LET items == TakeItems(ds, n1)
                micro_batches == Partition(items, k1)
                ds1 == AfterTake(ds, n1)
                last_items == TakeItems(ds1, n2)
                last_micro_batches == Partition(last_items, P)
                sd1 == ShuffleSeed(s.epoch_, s.seed_)
                sd2 == ShuffleSeed(s.epoch_, s.seed_)
                shuffled == shuffle(micro_batches, sd1)
                last_shuffled == shuffle(last_micro_batches, sd2)
                indices == reshape(shuffled, P, G, M)
                last_indices == reshape(last_shuffled, P, G, M)
                hn == BatchesOfRank(Len(shuffled), P, G, M)
                tn == BatchesOfRank(Len(last_shuffled), P, G, M)
            IN [ok |-> TRUE,
                dataset |-> AfterTake(ds1, n2),
                ret |-> [branch |-> "tail",
                         indices |-> concat(indices, last_indices),
                         takes |-> <<n1, n2>>,
                         groups |-> <<k1, P>>,
                         seeds |-> <<sd1, sd2>>,
                         input |-> shuffled \o last_shuffled,
                         head |-> indices,
                         tail |-> last_indices,
                         nmb |-> MkSeq(P, LAMBDA r : hn[r] + tn[r])]]

ScheduleCall(s) ==
    IF IsUniform(s.micro_batch_size_, s.last_micro_batch_size_)
    THEN UniformBranch(s)
    ELSE TailBranch(s)

(***************************************************************************)
(* The object after each call                                              *)
(***************************************************************************)
\* lines 72-75 and 87-102; epoch_ is not initialised by the constructor and
\* holds the indeterminate value u.
Constructed(a, u) ==
    [data_parallel_size_ |-> a.P,
     epoch_ |-> u,
     global_batch_size_ |-> a.G,
     last_micro_batch_size_ |-> LastMicroBatchSize(SizeOf(a.sizes), a.P, a.M),
     micro_batch_size_ |-> a.M,
     num_micro_batches_ |-> NumMicroBatches(SizeOf(a.sizes), a.P, a.M),
     seed_ |-> a.seed,
     dataset_ |-> Dataset(a.sizes, a.seed)]

\* lines 194-197
on_epoch_begin(s, epoch) ==
    [s EXCEPT !.epoch_ = epoch,
              !.dataset_ = DatasetOnEpochBegin(s.dataset_, epoch)]

on_epoch_end_recording(s, epoch) == [s EXCEPT !.epoch_ = epoch]

\* lines 202-204
on_epoch_end(s, epoch) == s

\* lines 177-179
on_batch_begin(s, batch) == s

\* lines 184-189
on_batch_end(s, batch) == s

\* line 209
on_train_begin(s) == s

\* line 214
on_train_end(s) == s

(***************************************************************************)
(* Inputs                                                                  *)
(***************************************************************************)
\* size vectors of n samples, the first h of them large
SizesOf(n, h) == MkSeq(n, LAMBDA i : IF i <= h THEN BigSize ELSE 1)

SizeVectors ==
    {Vec(SizesOf(n, h)) : n \in 0 .. MaxN, h \in {0}} \cup
    {Vec(SizesOf(n, n \div 2)) : n \in 0 .. MaxN} \cup {NULL}

Ones(n) == MkSeq(n, LAMBDA i : 1)

\* global batch sizes: data parallel size x micro-batch size x gradient
\* accumulation steps (GLOSSARY, "G = P * M * accumulation_steps")
Configs ==
    {[sizes |-> v, P |-> p, G |-> Wrap(p * m * a), M |-> m, seed |-> sd] :
        v \in SizeVectors, p \in 0 .. MaxP, m \in 0 .. MaxM,
        a \in 0 .. MaxSteps, sd \in 0 .. MaxSeed}

\* every Index value for P, G and M; datasets of every representable length
WideConfigs ==
    [sizes : {Vec(Ones(n)) : n \in IndexValues} \cup {NULL},
     P : IndexValues, G : IndexValues, M : IndexValues, seed : {0}]

Epochs == 0 .. MaxEpoch

\* values the uninitialised epoch_ may hold
Indeterminate == 0 .. MaxEpoch

Call(op, arg) == [op |-> op, arg |-> arg]

Idle ==
    /\ status = [i \in Inst |-> "unconstructed"]
    /\ sched = [i \in Inst |-> NoScheduler]
    /\ assigned = [i \in Inst |-> FALSE]
    /\ ret = [i \in Inst |-> NoResult]
    /\ last_op = Call("none", 0)

Init ==
    /\ args \in Configs
    /\ live = {1}
    /\ Idle

InitPair ==
    /\ args \in Configs
    /\ live = Inst
    /\ Idle

InitCtor ==
    /\ args \in WideConfigs
    /\ live = {1}
    /\ Idle

Ready == \A i \in live : status[i] = "ready"

\* f applied to the live instances
OnLive(old, F(_)) == [i \in Inst |-> IF i \in live THEN F(i) ELSE old[i]]

(***************************************************************************)
(* Calls; every live instance receives every call                          *)
(***************************************************************************)
ConstructOk ==
    /\ \A i \in live : status[i] = "unconstructed"
    /\ AssertsPass(args.sizes, args.P, args.G, args.M)
    /\ \E u \in [live -> Indeterminate] :
          sched' = OnLive(sched, LAMBDA i : Constructed(args, u[i]))
    /\ status' = OnLive(status, LAMBDA i : "ready")
    /\ last_op' = Call("Scheduler", 0)
    /\ UNCHANGED <<args, live, assigned, ret>>

ConstructAbort ==
    /\ \A i \in live : status[i] = "unconstructed"
    /\ ~AssertsPass(args.sizes, args.P, args.G, args.M)
    /\ status' = OnLive(status, LAMBDA i : "aborted")
    /\ last_op' = Call("Scheduler", 0)
    /\ UNCHANGED <<args, live, sched, assigned, ret>>

Schedule ==
    /\ Ready
    /\ LET r == [i \in live |-> ScheduleCall(sched[i])]
       IN /\ status' = OnLive(status, LAMBDA i : IF r[i].ok THEN "ready" ELSE "aborted")
          /\ sched' = OnLive(sched, LAMBDA i : [sched[i] EXCEPT !.dataset_ = r[i].dataset])
          /\ ret' = OnLive(ret, LAMBDA i : r[i].ret)
    /\ last_op' = Call("Schedule", 0)
    /\ UNCHANGED <<args, live, assigned>>

OnEpochBegin(e) ==
    /\ Ready
    /\ sched' = OnLive(sched, LAMBDA i : on_epoch_begin(sched[i], e))
    /\ assigned' = OnLive(assigned, LAMBDA i : TRUE)
    /\ ret' = OnLive(ret, LAMBDA i : NoResult)
    /\ last_op' = Call("on_epoch_begin", e)
    /\ UNCHANGED <<args, live, status>>

OnEpochEnd(e) ==
    /\ Ready
    /\ sched' = OnLive(sched, LAMBDA i : on_epoch_end(sched[i], e))
    /\ ret' = OnLive(ret, LAMBDA i : NoResult)
    /\ last_op' = Call("on_epoch_end", e)
    /\ UNCHANGED <<args, live, status, assigned>>

OnBatchBegin ==
    /\ Ready
    /\ sched' = OnLive(sched, LAMBDA i : on_batch_begin(sched[i], 0))
    /\ ret' = OnLive(ret, LAMBDA i : NoResult)
    /\ last_op' = Call("on_batch_begin", 0)
    /\ UNCHANGED <<args, live, status, assigned>>

OnBatchEnd ==
    /\ Ready
    /\ sched' = OnLive(sched, LAMBDA i : on_batch_end(sched[i], 0))
    /\ ret' = OnLive(ret, LAMBDA i : NoResult)
    /\ last_op' = Call("on_batch_end", 0)
    /\ UNCHANGED <<args, live, status, assigned>>

OnTrainBegin ==
    /\ Ready
    /\ sched' = OnLive(sched, LAMBDA i : on_train_begin(sched[i]))
    /\ ret' = OnLive(ret, LAMBDA i : NoResult)
    /\ last_op' = Call("on_train_begin", 0)
    /\ UNCHANGED <<args, live, status, assigned>>

OnTrainEnd ==
    /\ Ready
    /\ sched' = OnLive(sched, LAMBDA i : on_train_end(sched[i]))
    /\ ret' = OnLive(ret, LAMBDA i : NoResult)
    /\ last_op' = Call("on_train_end", 0)
    /\ UNCHANGED <<args, live, status, assigned>>

Next ==
    \/ ConstructOk
    \/ ConstructAbort
    \/ Schedule
    \/ \E e \in Epochs : OnEpochBegin(e)
    \/ \E e \in Epochs : OnEpochEnd(e)
    \/ OnBatchBegin
    \/ OnBatchEnd
    \/ OnTrainBegin
    \/ OnTrainEnd

Spec == Init /\ [][Next]_vars

SpecPair == InitPair /\ [][Next]_vars

NextCtor ==
    \/ ConstructOk
    \/ ConstructAbort

SpecCtor == InitCtor /\ [][NextCtor]_vars

(***************************************************************************)
(* Quantities the statements below are written in                          *)
(***************************************************************************)
N == SizeOf(args.sizes)
PerRank == N \div args.P
CeilDiv(x, y) == (x \div y) + (IF x % y = 0 THEN 0 ELSE 1)
ExpectedK == CeilDiv(PerRank, args.M) * args.P
ExpectedL == ((PerRank - 1) % args.M) + 1
UniformCase == PerRank % args.M = 0
Returned(i) == i \in live /\ ret[i] # NoResult
MaxSize == MaxOf(Range(args.sizes.data))
Weight(row) == SumSeq(MkSeq(Len(row), LAMBDA k : args.sizes.data[row[k] + 1]))
Abs(x) == IF x < 0 THEN 0 - x ELSE x

\* the claim's preconditions, as the claim words them
Violates(a) ==
    \/ a.P = 0
    \/ a.G = 0
    \/ a.M = 0
    \/ a.G % a.P # 0
    \/ (a.G \div a.P) % a.M # 0
    \/ a.sizes.null
    \/ Len(a.sizes.data) = 0
    \/ Len(a.sizes.data) % a.P # 0

(***************************************************************************)
(* C1. Permutation law: whenever Schedule() has returned, the rows it      *)
(* returned, flattened, hold every dataset index 0..N-1 exactly once, in   *)
(* the uniform branch and in the tail branch.                              *)
(***************************************************************************)
PermutationLaw ==
    \A i \in Inst : Returned(i) =>
        LET flat == Flatten(ret[i].indices)
        IN /\ Len(flat) = N
           /\ Range(flat) = 0 .. (N - 1)

\* a tail-branch schedule over two ranks has been returned
PermutationLawWitness ==
    /\ Returned(1)
    /\ ret[1].branch = "tail"
    /\ args.P = 2
    /\ N = MaxN

(***************************************************************************)
(* C2. Shape law: whenever Schedule() has returned, it returned P rows and *)
(* every row holds per_rank = N / P indices.                               *)
(***************************************************************************)
ShapeLaw ==
    \A i \in Inst : Returned(i) =>
        /\ Len(ret[i].indices) = args.P
        /\ \A r \in 1 .. args.P : Len(ret[i].indices[r]) = PerRank

(***************************************************************************)
(* C3. Determinism: two instances constructed from the same arguments and  *)
(* given the same calls return the same rows from Schedule().              *)
(***************************************************************************)
Determinism ==
    (Returned(1) /\ Returned(2)) => ret[1].indices = ret[2].indices

(***************************************************************************)
(* C4. Load balance: in the uniform case the heaviest and the lightest     *)
(* rank of a returned schedule differ by at most 2 * max(sizes).           *)
(***************************************************************************)
LoadBalance ==
    \A i \in Inst : (Returned(i) /\ UniformCase) =>
        \A r, q \in 1 .. args.P :
            Weight(ret[i].indices[r]) - Weight(ret[i].indices[q]) <= 2 * MaxSize

(***************************************************************************)
(* C4, amended. In the uniform case, when no size saturates                *)
(* OverflowSafeCast, any two micro-batches handed to reshape differ in     *)
(* weight by at most max(sizes), and two ranks that received the same      *)
(* number n of micro-batches differ in weight by at most n * max(sizes).   *)
(***************************************************************************)
LoadBalancePerMicroBatch ==
    \A i \in Inst : (Returned(i) /\ UniformCase /\ MaxSize <= SignedMax) =>
        /\ \A a, b \in 1 .. Len(ret[i].input) :
              Weight(ret[i].input[a]) - Weight(ret[i].input[b]) <= MaxSize
        /\ \A r, q \in 1 .. args.P :
              ret[i].nmb[r] = ret[i].nmb[q] =>
                  Weight(ret[i].indices[r]) - Weight(ret[i].indices[q])
                      <= ret[i].nmb[r] * MaxSize

\* after on_epoch_begin, two ranks with the same number of micro-batches
\* are further apart than 2 * max(sizes)
LoadBalanceWitness ==
    /\ Returned(1)
    /\ assigned[1]
    /\ UniformCase
    /\ args.P = 2
    /\ ret[1].nmb[1] = ret[1].nmb[2]
    /\ Abs(Weight(ret[1].indices[1]) - Weight(ret[1].indices[2])) > 2 * MaxSize

(***************************************************************************)
(* C5. A violated precondition is fatal at construction: the constructor   *)
(* aborts, no scheduler object exists and Schedule() cannot run.           *)
(***************************************************************************)
FatalPreconditions ==
    \A i \in live : (status[i] # "unconstructed" /\ Violates(args)) =>
        /\ status[i] = "aborted"
        /\ sched[i] = NoScheduler
        /\ ~ENABLED Schedule

\* construction aborted only because N is not a multiple of P
FatalPreconditionsWitness ==
    /\ status[1] = "aborted"
    /\ args.P > 1
    /\ args.G % args.P = 0
    /\ args.M # 0
    /\ (args.G \div args.P) % args.M = 0
    /\ ~args.sizes.null
    /\ N % args.P # 0

(***************************************************************************)
(* C6. Frame: no call changes P, G, M, base_seed, num_micro_batches or     *)
(* last_micro_batch_size; epoch_ changes only in on_epoch_begin(e), and    *)
(* on_epoch_begin(e) leaves epoch_ = e.                                    *)
(***************************************************************************)
FrameStep ==
    \A i \in live : status[i] = "ready" =>
        /\ sched'[i].data_parallel_size_ = sched[i].data_parallel_size_
        /\ sched'[i].global_batch_size_ = sched[i].global_batch_size_
        /\ sched'[i].micro_batch_size_ = sched[i].micro_batch_size_
        /\ sched'[i].seed_ = sched[i].seed_
        /\ sched'[i].num_micro_batches_ = sched[i].num_micro_batches_
        /\ sched'[i].last_micro_batch_size_ = sched[i].last_micro_batch_size_
        /\ sched'[i].epoch_ # sched[i].epoch_ => last_op'.op = "on_epoch_begin"
        /\ last_op'.op = "on_epoch_begin" => sched'[i].epoch_ = last_op'.arg

SchedulerFrame == [][FrameStep]_vars

\* on_epoch_end(e') has run with e' different from the current epoch
SchedulerFrameWitness ==
    /\ status[1] = "ready"
    /\ assigned[1]
    /\ last_op.op = "on_epoch_end"
    /\ last_op.arg # sched[1].epoch_

(***************************************************************************)
(* C7. Derived constants: K and L computed in Index arithmetic equal       *)
(* ceil(per_rank / M) * P and ((per_rank - 1) mod M) + 1, 1 <= L <= M, and *)
(* the amounts Schedule() takes add up to N: M * K in the uniform case,    *)
(* M * (K - P) + L * P otherwise, each product computed in Index           *)
(* arithmetic.                                                             *)
(***************************************************************************)
DerivedConstantsCover ==
    \A i \in live : status[i] = "ready" =>
        LET K == sched[i].num_micro_batches_
            L == sched[i].last_micro_batch_size_
            P == sched[i].data_parallel_size_
            M == sched[i].micro_batch_size_
        IN /\ K = ExpectedK
           /\ L = ExpectedL
           /\ 1 <= L /\ L <= M
           /\ L = M => (K * M = N /\ UniformTake(M, K) = N)
           /\ L # M => /\ ((K - P) * M) + (P * L) = N
                       /\ HeadTake(M, K, P) + TailTake(L, P) = N

\* the longest representable dataset, in the tail case
DerivedConstantsWitness ==
    /\ status[1] = "ready"
    /\ N = IndexMod - 1
    /\ sched[1].last_micro_batch_size_ # sched[1].micro_batch_size_
    /\ sched[1].micro_batch_size_ > 2

TailLayout ==
    \A i \in Inst : (Returned(i) /\ ~UniformCase) =>
        \A r \in 1 .. args.P :
            /\ ret[i].indices[r] = ret[i].head[r] \o ret[i].tail[r]
            /\ Len(ret[i].head[r]) = (PerRank \div args.M) * args.M
            /\ Len(ret[i].tail[r]) = ExpectedL

(***************************************************************************)
(* C10. Whenever Schedule() has returned, the epoch_ it seeded the shuffle *)
(* with had been assigned by an earlier on_epoch_begin.                    *)
(***************************************************************************)
EpochAssignedBeforeSchedule ==
    \A i \in Inst : Returned(i) => assigned[i]

====
